---- MODULE Spec2Model ----
(***************************************************************************)
(* Verification model of the WSA case-study dashboard: the value parser    *)
(* (process_data), the normalizer (normalize_parameter) and the radar      *)
(* chart builder (create_radar_chart) of src/utils.                        *)
(*                                                                         *)
(* Numbers are fixed-point: the integer n stands for the float n / Scale.  *)
(* Strings are sequences of one-character strings.  A float NaN is the     *)
(* value NaN; a normalizer result is an exact rational num / den.          *)
(***************************************************************************)
EXTENDS Integers, Sequences, FiniteSets, TLC

\* ------------------------------------------------------------------ bounds
MaxFrac == 1
MaxDigits == 2
MaxHalf == 18
LowHalves == 2

\* ----------------------------------------------------------- fixed point
RECURSIVE Pow10(_)
Pow10(n) == IF n <= 0 THEN 1 ELSE 10 * Pow10(n - 1)

Scale == Pow10(MaxFrac)

Abs(x) == IF x < 0 THEN -x ELSE x
Max2(a, b) == IF b > a THEN b ELSE a
Min2(a, b) == IF b < a THEN b ELSE a

\* a Python value: a float (v), NaN, None or a string (s)
Num(v) == [kind |-> "num", v |-> v, s |-> <<>>]
NaN == [kind |-> "nan", v |-> 0, s |-> <<>>]
NoneVal == [kind |-> "none", v |-> 0, s |-> <<>>]
Str(s) == [kind |-> "str", v |-> 0, s |-> s]

isna(x) == x.kind \in {"nan", "none"}

\* ---------------------------------------------------------------- strings
DigitChars == {"0", "1", "2", "3", "4", "5", "6", "7", "8", "9"}

DigitVal(c) ==
    CASE c = "0" -> 0 [] c = "1" -> 1 [] c = "2" -> 2 [] c = "3" -> 3
      [] c = "4" -> 4 [] c = "5" -> 5 [] c = "6" -> 6 [] c = "7" -> 7
      [] c = "8" -> 8 [] c = "9" -> 9

startswith(s, c) == s # <<>> /\ Head(s) = c

endswith(s, suf) ==
    /\ Len(s) >= Len(suf)
    /\ SubSeq(s, Len(s) - Len(suf) + 1, Len(s)) = suf

RECURSIVE lstrip(_, _)
lstrip(s, c) == IF s # <<>> /\ Head(s) = c THEN lstrip(Tail(s), c) ELSE s

RECURSIVE rstrip(_, _)
rstrip(s, c) ==
    IF s # <<>> /\ s[Len(s)] = c THEN rstrip(SubSeq(s, 1, Len(s) - 1), c) ELSE s

\* str.strip(c): every leading and every trailing c is removed
strip(s, c) == rstrip(lstrip(s, c), c)

isdigit(s) == s # <<>> /\ \A i \in 1..Len(s) : s[i] \in DigitChars

RECURSIVE TakeToken(_)
TakeToken(s) ==
    IF s = <<>> \/ Head(s) = " " THEN <<>> ELSE <<Head(s)>> \o TakeToken(Tail(s))

\* str.split()[0]: the first whitespace-delimited token; no token -> IndexError
HasToken(s) == lstrip(s, " ") # <<>>
FirstToken(s) == TakeToken(lstrip(s, " "))

RECURSIVE IntVal(_)
IntVal(ds) ==
    IF ds = <<>> THEN 0
    ELSE IntVal(SubSeq(ds, 1, Len(ds) - 1)) * 10 + DigitVal(ds[Len(ds)])

\* float(str): surrounding whitespace ignored, then digits with at most one
\* decimal point and at least one digit; anything else is a ValueError.
FloatBody(s) == strip(s, " ")

FloatOk(s) ==
    LET t == FloatBody(s) IN
    /\ t # <<>>
    /\ \A i \in 1..Len(t) : t[i] \in DigitChars \cup {"."}
    /\ Cardinality({i \in 1..Len(t) : t[i] = "."}) <= 1
    /\ \E i \in 1..Len(t) : t[i] \in DigitChars

FloatVal(s) ==
    LET t == FloatBody(s)
        dots == {i \in 1..Len(t) : t[i] = "."}
        dot == IF dots = {} THEN Len(t) + 1 ELSE CHOOSE i \in dots : TRUE
        ip == SubSeq(t, 1, dot - 1)
        fp == SubSeq(t, dot + 1, Len(t))
        fq == IF Len(fp) > MaxFrac THEN SubSeq(fp, 1, MaxFrac) ELSE fp
    IN IntVal(ip) * Scale + IntVal(fq) * Pow10(MaxFrac - Len(fq))

LINT == <<"L", "I", "N", "T">>
NR == <<"N", "/", "R">>


\* ------------------------------------------------- process_data (parser)
ValueError == [kind |-> "exc", v |-> 0, s |-> <<"V">>]
IndexError == [kind |-> "exc", v |-> 0, s |-> <<"I">>]

\* float(s) on a string
float_str(s) == IF FloatOk(s) THEN Num(FloatVal(s)) ELSE ValueError

\* line 11: return float(value.strip('<'))
ParseLess_nostrip(s) == float_str(s)
ParseLess(s) == float_str(strip(s, "<"))

\* lines 13-16: strip '>', all digits -> float, otherwise the sentinel 2000
Sentinel == 2000
ParseGreater(s) ==
    LET t == strip(s, ">") IN
    IF isdigit(t) THEN float_str(t) ELSE Num(Sentinel * Scale)

\* line 20: return float(value.split()[0].strip('<'))
ParseLint(s) ==
    IF HasToken(s) THEN float_str(strip(FirstToken(s), "<")) ELSE IndexError

\* lines 21-24: float(value), ValueError -> 0
ParseOther_sentinel(s) ==
    LET r == float_str(s) IN IF r = ValueError THEN Num(Sentinel * Scale) ELSE r

ParseOther(s) ==
    LET r == float_str(s) IN IF r = ValueError THEN Num(0) ELSE r

\* lines 8-28, the body of the try block
process_data_try(value) ==
    IF value.kind = "str" THEN
        LET s == value.s IN
        IF startswith(s, "<") THEN ParseLess(s)
        ELSE IF startswith(s, ">") THEN ParseGreater(s)
        ELSE IF s = NR THEN Num(0)
        ELSE IF endswith(s, LINT) THEN ParseLint(s)
        ELSE ParseOther(s)
    ELSE IF value.kind = "none" THEN Num(0)
    ELSE value

\* lines 6-30: except Exception: return 0
process_data_body_nocatch(value) == process_data_try(value)

process_data_body(value) ==
    LET r == process_data_try(value) IN IF r.kind = "exc" THEN Num(0) ELSE r

\* a cache that answers with an entry stored for another argument
process_data_anyentry(memo, value) ==
    IF DOMAIN memo # {} THEN memo[CHOOSE x \in DOMAIN memo : TRUE]
    ELSE process_data_body(value)

\* line 5: @lru_cache(maxsize=None) around the body
process_data(memo, value) ==
    IF value \in DOMAIN memo THEN memo[value] ELSE process_data_body(value)

\* load_data, lines 46-50: df[col] = df[col].apply(process_data) for every
\* column but the name, Details and Pond
load_frame(df) ==
    [i \in 1..Len(df) |->
        [df[i] EXCEPT !.weeks = [w \in DOMAIN @ |-> process_data_body(@[w])]]]

\* ---------------------------------------- normalize_parameter (charts.py)
\* a result: the exact rational num / den (den > 0), or a raised exception
Ret(n, d) == [kind |-> "ok", num |-> n, den |-> d]
ZeroDivisionError == [kind |-> "raise", num |-> 0, den |-> 1]

\* max(0, min(1, n / d)) for d # 0
Clamp01(n, d) ==
    LET nn == IF d < 0 THEN -n ELSE n
        dd == Abs(d)
    IN IF nn <= 0 THEN Ret(0, 1)
       ELSE IF nn >= dd THEN Ret(1, 1)
       ELSE Ret(nn, dd)

NeutralPh == 7

\* lines 18-25: |value - 7| / max(|max - 7|, |min - 7|), capped at 1
NormalizePh_mindev(value, mn, mx) ==
    LET neutral_ph == NeutralPh * Scale
        max_possible_diff == Min2(Abs(mx - neutral_ph), Abs(mn - neutral_ph))
        actual_diff == Abs(value - neutral_ph)
    IN IF max_possible_diff = 0 THEN ZeroDivisionError
       ELSE IF actual_diff >= max_possible_diff THEN Ret(1, 1)
       ELSE Ret(actual_diff, max_possible_diff)

NormalizePh_signed(value, mn, mx) ==
    LET neutral_ph == NeutralPh * Scale
        max_possible_diff == Max2(Abs(mx - neutral_ph), Abs(mn - neutral_ph))
        actual_diff == value - neutral_ph
    IN IF max_possible_diff = 0 THEN ZeroDivisionError
       ELSE IF actual_diff >= max_possible_diff THEN Ret(1, 1)
       ELSE IF actual_diff <= 0 THEN Ret(0, 1)
       ELSE Ret(actual_diff, max_possible_diff)

NormalizePh(value, mn, mx) ==
    LET neutral_ph == NeutralPh * Scale
        max_possible_diff == Max2(Abs(mx - neutral_ph), Abs(mn - neutral_ph))
        actual_diff == Abs(value - neutral_ph)
    IN IF max_possible_diff = 0 THEN ZeroDivisionError
       ELSE IF actual_diff >= max_possible_diff THEN Ret(1, 1)
       ELSE Ret(actual_diff, max_possible_diff)

\* lines 26-31: mid_point = (max + min) / 2, computed here in half units
NormalizeCentered(value, mn, mx) ==
    LET mid2 == mx + mn
        max_distance2 == Max2(2 * mx - mid2, mid2 - 2 * mn)
    IN IF max_distance2 = 0 THEN ZeroDivisionError
       ELSE Clamp01(Abs(2 * value - mid2), max_distance2)

\* lines 32-37
NormalizeStandard_inverted(value, mn, mx) ==
    IF mx = mn THEN (IF value >= mx THEN Ret(0, 1) ELSE Ret(1, 1))
    ELSE Clamp01(mx - value, mx - mn)

NormalizeStandard(value, mn, mx) ==
    IF mx = mn THEN (IF value >= mx THEN Ret(0, 1) ELSE Ret(1, 1))
    ELSE Clamp01(value - mn, mx - mn)

\* lines 5-39; the except clause catches TypeError and ValueError only, so
\* a ZeroDivisionError leaves the function
normalize_parameter(value, param_name, param_min, param_max, param_type) ==
    IF isna(value) \/ isna(param_min) \/ isna(param_max) THEN Ret(0, 1)
    ELSE IF param_type = "ph_difference"
        THEN NormalizePh(value.v, param_min.v, param_max.v)
    ELSE IF param_type = "centered"
        THEN NormalizeCentered(value.v, param_min.v, param_max.v)
    ELSE NormalizeStandard(value.v, param_min.v, param_max.v)

\* ----------------------------------------------------- normalizer inputs
Half == Scale \div 2
NumGrid == {h * Half : h \in (-LowHalves)..MaxHalf}
FloatInputs == {Num(v) : v \in NumGrid} \cup {NaN}
Policies == {"standard", "centered", "ph_difference"}

PH == <<"P", "H">>
TURBIDITY == <<"T", "U", "R", "B", "I", "D", "I", "T", "Y">>

\* ------------------------------------------- create_radar_chart (charts.py)
\* A measurement table is a sequence of rows [name, weeks]; weeks[w] is the
\* cell of column 'Week w'.  A bounds table is a sequence of rows
\* [name, Min, Max].  Every table has the columns Week 1 .. Week NumWeeks.
NumWeeks == 2

pH == <<"p", "H">>
TypeError == [kind |-> "exc", v |-> 0, s |-> <<"T">>]

UpperChar(c) ==
    CASE c = "p" -> "P" [] c = "h" -> "H" [] c = "t" -> "T" [] c = "o" -> "O"
      [] c = "c" -> "C" [] OTHER -> c

upper(s) == [i \in 1..Len(s) |-> UpperChar(s[i])]

\* float(x) of a cell
float_(x) ==
    IF x.kind = "str" THEN float_str(x.s)
    ELSE IF x.kind = "none" THEN TypeError
    ELSE x

\* data_df[data_df['Influent Water'].isin(params)]
RowsIn(df, params) == SelectSeq(df, LAMBDA row : row.name \in params)
\* df[df['Influent Water'] == param]
RowsNamed(df, param) == SelectSeq(df, LAMBDA row : row.name = param)
NamesOf(df) == [i \in 1..Len(df) |-> df[i].name]
ColumnOf(df, w) == [i \in 1..Len(df) |-> df[i].weeks[w]]
Range(f) == {f[i] : i \in DOMAIN f}

\* Series.min() / Series.max(): NaN cells are skipped, no cell left -> NaN
SeriesMin(col) ==
    LET nums == {col[i].v : i \in {j \in DOMAIN col : col[j].kind = "num"}}
    IN IF nums = {} THEN NaN ELSE Num(CHOOSE m \in nums : \A n \in nums : m <= n)

SeriesMax(col) ==
    LET nums == {col[i].v : i \in {j \in DOMAIN col : col[j].kind = "num"}}
    IN IF nums = {} THEN NaN ELSE Num(CHOOSE m \in nums : \A n \in nums : m >= n)

\* the builtin min() / max() of a non-empty list of floats: an element
\* replaces the current one only when it compares smaller (larger), and every
\* comparison with NaN is false
FloatLt(x, y) == x.kind = "num" /\ y.kind = "num" /\ x.v < y.v

RECURSIVE PyMinFrom(_, _)
PyMinFrom(cur, rest) ==
    IF rest = <<>> THEN cur
    ELSE PyMinFrom(IF FloatLt(Head(rest), cur) THEN Head(rest) ELSE cur, Tail(rest))

RECURSIVE PyMaxFrom(_, _)
PyMaxFrom(cur, rest) ==
    IF rest = <<>> THEN cur
    ELSE PyMaxFrom(IF FloatLt(cur, Head(rest)) THEN Head(rest) ELSE cur, Tail(rest))

PyMin(xs) == PyMinFrom(Head(xs), Tail(xs))
PyMax(xs) == PyMaxFrom(Head(xs), Tail(xs))

\* lines 72-77: {'pH': 'ph_difference'} updated with 'standard' for every
\* other plotted name
ParamTypes(param_names) ==
    [p \in {pH} \cup Range(param_names) |->
        IF p = pH THEN "ph_difference" ELSE "standard"]

\* param_types.get(param, 'standard')
TypeOf(param_types, param) ==
    IF param \in DOMAIN param_types THEN param_types[param] ELSE "standard"

\* lines 87-95: the bounds of one parameter
BoundsOf(data_df, ranges_df, param) ==
    LET range_row == RowsNamed(ranges_df, param) IN
    IF Len(range_row) > 0
    THEN [min |-> float_(range_row[1].Min), max |-> float_(range_row[1].Max)]
    ELSE LET param_data == RowsNamed(data_df, param) IN
         [min |-> PyMin([w \in 1..NumWeeks |-> SeriesMin(ColumnOf(param_data, w))]),
          max |-> PyMax([w \in 1..NumWeeks |-> SeriesMax(ColumnOf(param_data, w))])]

Point(k, a, n, mn, mx, t) ==
    [kind |-> k, actual |-> a, norm |-> n, min |-> mn, max |-> mx, type |-> t]

\* lines 97-119: one plotted point
PlotPoint(param_types, param, value, b) ==
    LET actual_val == float_(value)
        param_type == TypeOf(param_types, param)
    IN IF b.min.kind = "exc" \/ b.max.kind = "exc"
       THEN Point("ValueError", Num(0), Ret(0, 1), Num(0), Num(0), param_type)
       ELSE IF actual_val.kind = "exc"
       THEN Point("ok", Num(0), Ret(0, 1), Num(0), Num(Scale), param_type)
       ELSE LET norm_val == normalize_parameter(actual_val, param, b.min, b.max,
                                                param_type)
            IN Point(IF norm_val.kind = "ok" THEN "ok" ELSE "ZeroDivisionError",
                     actual_val, norm_val, b.min, b.max, param_type)

\* the exception of the first point that raises, "ok" when none does
FirstOutcome(pts) ==
    LET bad == {i \in 1..Len(pts) : pts[i].kind # "ok"} IN
    IF bad = {} THEN "ok"
    ELSE pts[CHOOSE i \in bad : \A j \in bad : i <= j].kind

\* lines 152-201: the comparison trace; a parameter without a row in
\* treated_ranges is skipped
RECURSIVE ComparisonPoints(_, _, _, _)
ComparisonPoints(param_types, treated_ranges, names, treated_values) ==
    IF names = <<>> \/ treated_values = <<>> THEN <<>>
    ELSE LET param == Head(names)
             range_row == RowsNamed(treated_ranges, param)
             rest == ComparisonPoints(param_types, treated_ranges, Tail(names),
                                      Tail(treated_values))
         IN IF Len(range_row) > 0
            THEN <<PlotPoint(param_types, param, Head(treated_values),
                             [min |-> float_(range_row[1].Min),
                              max |-> float_(range_row[1].Max)])>> \o rest
            ELSE rest

NoTrace == [theta |-> <<>>, r |-> <<>>, actual |-> <<>>]

\* line 127: theta = param_names + [param_names[0]], an IndexError when no
\* row was selected
ClosedNames_unindexed(param_names) == [ok |-> TRUE, theta |-> param_names]

ClosedNames(param_names) ==
    IF param_names = <<>> THEN [ok |-> FALSE, theta |-> <<>>]
    ELSE [ok |-> TRUE, theta |-> param_names \o <<param_names[1]>>]

Fig(st, names, pts, cmp) ==
    [status |-> st,
     range |-> [theta |-> ClosedNames(names).theta,
                r |-> IF names = <<>> THEN <<>>
                      ELSE [i \in 1..(Len(names) + 1) |-> Ret(1, 1)]],
     main |-> [theta |-> names,
               r |-> [i \in 1..Len(pts) |-> pts[i].norm],
               actual |-> [i \in 1..Len(pts) |-> pts[i].actual]],
     min_values |-> [i \in 1..Len(pts) |-> pts[i].min],
     max_values |-> [i \in 1..Len(pts) |-> pts[i].max],
     types |-> [i \in 1..Len(pts) |-> pts[i].type],
     comparison |-> cmp]

Raised(exc) == Fig(exc, <<>>, <<>>, NoTrace)

\* lines 56-241
create_radar_chart(week_num, params, influent_data, treated_data, influent_ranges, treated_ranges, data_type, show_comparison) ==
    LET ranges_df == IF data_type = "treated" THEN treated_ranges ELSE influent_ranges
        data_df == IF data_type = "treated" THEN treated_data ELSE influent_data
        df_filtered == RowsIn(data_df, params)
    IN IF week_num \notin 1..NumWeeks THEN Raised("KeyError")
       ELSE
       LET values == ColumnOf(df_filtered, week_num)
           param_names == NamesOf(df_filtered)
           param_types == ParamTypes(param_names)
           pts == [i \in 1..Len(param_names) |->
                      PlotPoint(param_types, param_names[i], values[i],
                                BoundsOf(data_df, ranges_df, param_names[i]))]
           treated_filtered == RowsIn(treated_data, params)
           cpts == ComparisonPoints(param_types, treated_ranges, param_names,
                                    ColumnOf(treated_filtered, week_num))
       IN IF FirstOutcome(pts) # "ok" THEN Raised(FirstOutcome(pts))
          ELSE IF ~ClosedNames(param_names).ok THEN Raised("IndexError")
          ELSE IF ~show_comparison THEN Fig("ok", param_names, pts, NoTrace)
          ELSE IF FirstOutcome(cpts) # "ok" THEN Raised(FirstOutcome(cpts))
          ELSE Fig("ok", param_names, pts,
                   [theta |-> param_names,
                    r |-> [i \in 1..Len(cpts) |-> cpts[i].norm],
                    actual |-> [i \in 1..Len(cpts) |-> cpts[i].actual]])

\* ------------------------------ earlier builder (utils/old/charts - Copy.py)
\* order of strings: code point by code point, capitals before small letters
CharOrder == <<"B", "D", "H", "I", "P", "R", "T", "U", "Y", "p">>
Ord(c) == CHOOSE i \in 1..Len(CharOrder) : CharOrder[i] = c

RECURSIVE StrLess(_, _)
StrLess(a, b) ==
    IF b = <<>> THEN FALSE
    ELSE IF a = <<>> THEN TRUE
    ELSE IF Head(a) = Head(b) THEN StrLess(Tail(a), Tail(b))
    ELSE Ord(Head(a)) < Ord(Head(b))

RECURSIVE InsertRow(_, _)
InsertRow(row, df) ==
    IF df = <<>> THEN <<row>>
    ELSE IF ~StrLess(Head(df).name, row.name) THEN <<row>> \o df
    ELSE <<Head(df)>> \o InsertRow(row, Tail(df))

\* df.sort_values('Influent Water')
RECURSIVE sort_values(_)
sort_values(df) ==
    IF df = <<>> THEN <<>> ELSE InsertRow(Head(df), sort_values(Tail(df)))

\* pd.isna(value) or value == 'N/R' or str(value).strip() == ''
IsMissing_absentonly(value) == isna(value)

IsMissing(value) ==
    \/ isna(value)
    \/ value = Str(NR)
    \/ value.kind = "str" /\ strip(value.s, " ") = <<>>

\* warning_message: None, or the text naming the week and the parameters
NoWarning == [kind |-> "None", week |-> 0, names |-> <<>>]
Warning(week_num, missing_params) ==
    [kind |-> "text", week |-> week_num, names |-> missing_params]

\* of the returned pair (fig, warning_message): the axis and the cell values
\* the figure is drawn from, the parameters found missing, and the warning
CopyRet(st, names, vals, missing, warning) ==
    [status |-> st, theta |-> names, values |-> vals,
     missing_params |-> missing, warning |-> warning]
CopyRaised(exc) == CopyRet(exc, <<>>, <<>>, <<>>, NoWarning)

\* the treated points the comparison loop appends: a parameter without a
\* treated bounds row is skipped, and so is a cell 'N/R'
TreatedAppended(param_names, treated_values, treated_ranges) ==
    {i \in 1..Min2(Len(param_names), Len(treated_values)) :
        /\ Len(RowsNamed(treated_ranges, param_names[i])) > 0
        /\ treated_values[i] # Str(NR)}

copy_create_radar_chart(week_num, params, influent_data, treated_data, influent_ranges, treated_ranges, data_type, show_comparison) ==
    LET data_df == IF data_type = "treated" THEN treated_data ELSE influent_data
        df_filtered == sort_values(RowsIn(data_df, params))
        param_names == NamesOf(df_filtered)
    IN  \* param_names[0] of an empty list
        IF param_names = <<>> THEN CopyRaised("IndexError")
        \* row[week_col] of a column the table does not have
        ELSE IF week_num \notin 1..NumWeeks THEN CopyRaised("KeyError")
        ELSE
          LET cells == ColumnOf(df_filtered, week_num)
              missing_params ==
                  NamesOf(SelectSeq(df_filtered,
                                    LAMBDA row : IsMissing(row.weeks[week_num])))
              values == [i \in 1..Len(cells) |->
                            IF IsMissing(cells[i]) THEN Num(0) ELSE cells[i]]
              warning_message ==
                  IF missing_params # <<>> THEN Warning(week_num, missing_params)
                  ELSE NoWarning
              treated_values ==
                  ColumnOf(sort_values(RowsIn(treated_data, params)), week_num)
          IN  \* treated_actual_values[0] of an empty list
              IF /\ show_comparison
                 /\ TreatedAppended(param_names, treated_values, treated_ranges) = {}
              THEN CopyRaised("IndexError")
              ELSE CopyRet("ok", param_names \o <<param_names[1]>>,
                           values \o <<values[1]>>, missing_params, warning_message)

\* ------------------------------ create_parameter_table (utils/charts.py)
DigitChar(d) == CHOOSE c \in DigitChars : DigitVal(c) = d

RECURSIVE DigitsOf(_)
DigitsOf(n) ==
    IF n < 10 THEN <<DigitChar(n)>> ELSE DigitsOf(n \div 10) \o <<DigitChar(n % 10)>>

\* the k digits of a fraction, without trailing zeros but never empty
RECURSIVE FracDigits(_, _)
FracDigits(n, k) ==
    IF k = 1 THEN <<DigitChar(n)>>
    ELSE IF n % 10 = 0 THEN FracDigits(n \div 10, k - 1)
    ELSE FracDigits(n \div 10, k - 1) \o <<DigitChar(n % 10)>>

\* f"{x}" of a float: 'nan', '7.0', '8.5'
format_float(x) ==
    IF x.kind # "num" THEN <<"n", "a", "n">>
    ELSE (IF x.v < 0 THEN <<"-">> ELSE <<>>) \o DigitsOf(Abs(x.v) \div Scale)
            \o <<".">> \o FracDigits(Abs(x.v) % Scale, MaxFrac)

\* f"{x['Min']} - {x['Max']}"
FormatRange(Min, Max) == format_float(Min) \o <<" ", "-", " ">> \o format_float(Max)

\* pd.merge(left, right, on='Influent Water', how='left'): the left rows in
\* their order, each with the bounds of every right row of the same name, or
\* with NaN bounds when there is none
RECURSIVE MergeLeft(_, _, _)
MergeLeft(left, week_num, right) ==
    IF left = <<>> THEN <<>>
    ELSE LET row == Head(left)
             found == RowsNamed(right, row.name)
             joined == IF found = <<>>
                       THEN <<[name |-> row.name, cell |-> row.weeks[week_num],
                               Min |-> NaN, Max |-> NaN]>>
                       ELSE [j \in 1..Len(found) |->
                               [name |-> row.name, cell |-> row.weeks[week_num],
                                Min |-> found[j].Min, Max |-> found[j].Max]]
         IN joined \o MergeLeft(Tail(left), week_num, right)

\* abs(cell.astype(float) - 7.0)
PhDifference(cell) ==
    IF cell.kind = "num" THEN Num(Abs(cell.v - NeutralPh * Scale)) ELSE NaN

\* the returned frame: its columns and, per row, the index entry (Details
\* describes the parameter, one description per name) and the computed cells
TableOf(st, cols, rows) == [status |-> st, columns |-> cols, rows |-> rows]
TableRaised(exc) == TableOf(exc, <<>>, <<>>)

create_parameter_table(week_num, params, data_df, ranges_df) ==
    IF week_num \notin 1..NumWeeks THEN TableRaised("KeyError")
    ELSE
      LET df_display == MergeLeft(RowsIn(data_df, params), week_num, ranges_df)
          with_ph == pH \in params
          display_cols ==
              <<"Details", "Current Value">>
                  \o (IF with_ph THEN <<"pH Difference">> ELSE <<>>)
                  \o <<"Range", "Estimated", "Notes">>
      IN TableOf("ok", display_cols,
                 [i \in 1..Len(df_display) |->
                    [Details |-> df_display[i].name,
                     current_value |-> df_display[i].cell,
                     ph_difference |->
                         IF with_ph /\ df_display[i].name = pH
                         THEN PhDifference(df_display[i].cell) ELSE NaN,
                     range |-> FormatRange(df_display[i].Min, df_display[i].Max)]])

\* ---------------------------------------------------------- chart inputs
MaxRows == 2
MaxRangeRows == 1

NameOrder == <<PH, pH, TURBIDITY>>
ChartNames == Range(NameOrder)
CellValues == {NaN, Num(14 * Half), Num(17 * Half)}
BoundPairs == {[Min |-> Num(0), Max |-> Num(0)],
               [Min |-> Num(13 * Half), Max |-> Num(17 * Half)],
               [Min |-> Num(14 * Half), Max |-> Num(14 * Half)]}

\* lists of distinct names
NameLists(n) ==
    UNION {{ns \in [1..k -> ChartNames] : \A i, j \in 1..k : ns[i] = ns[j] => i = j}
           : k \in 0..n}

\* lists of distinct names in the order of NameOrder
SortedNameLists(n) ==
    UNION {{[i \in 1..k |-> NameOrder[ix[i]]] :
              ix \in {f \in [1..k -> 1..Len(NameOrder)] :
                         \A i, j \in 1..k : i < j => f[i] < f[j]}}
           : k \in 0..n}

TablesOver(nameLists, rowCells) ==
    UNION {{[i \in 1..Len(ns) |-> [name |-> ns[i], weeks |-> ws[i]]] :
              ws \in [1..Len(ns) -> rowCells]} : ns \in nameLists}

\* a row holds one cell in Week 1 and one cell in every later week
RowCells == {[w \in 1..NumWeeks |-> IF w = 1 THEN c ELSE d] : c, d \in CellValues}
FlatCells == {[w \in 1..NumWeeks |-> c] : c \in CellValues}

Tables == TablesOver(NameLists(MaxRows), RowCells)
\* tables whose rows hold the same cell in every week
FlatTables == TablesOver(NameLists(MaxRows), FlatCells)
\* tables that hold the same cell everywhere
UniformTables ==
    UNION {TablesOver(NameLists(MaxRows), {[w \in 1..NumWeeks |-> c]}) : c \in CellValues}

RangeTables ==
    UNION {{[i \in 1..Len(ns) |-> [name |-> ns[i], Min |-> bs[i].Min, Max |-> bs[i].Max]] :
              bs \in [1..Len(ns) -> BoundPairs]} : ns \in SortedNameLists(MaxRangeRows)}

ParamChoices == {ChartNames, {pH, TURBIDITY}}

\* what a build leaves of a table it was passed: the boolean-mask selection
\* data_df[data_df['Influent Water'].isin(params)] and pd.merge make new
\* frames, and every later assignment goes to those
FrameAfterBuild_filtered(df, params) == RowsIn(df, params)

FrameAfterBuild(df, params) == df

\* RELEVANT_PARAMS and the tables name the parameter 'PH'
TableParamChoices == ParamChoices \cup {{PH, TURBIDITY}}

\* tables for repeated builds: the three names, one cell value everywhere
MaxBuilds == 3
RebuildTables ==
    UNION {TablesOver({<<TURBIDITY, PH, pH>>}, {[w \in 1..NumWeeks |-> c]}) :
             c \in {NaN, Num(17 * Half)}}
RebuildRanges ==
    {<<>>, <<[name |-> pH, Min |-> Num(13 * Half), Max |-> Num(17 * Half)]>>}
RebuildWeeks == {1, NumWeeks}
RebuildKinds == {[data_type |-> "influent", show_comparison |-> FALSE],
                 [data_type |-> "treated", show_comparison |-> FALSE],
                 [data_type |-> "influent", show_comparison |-> TRUE]}

\* cells as the tables hold them before parsing
RawCells == {NaN, Str(NR), Str(<<" ">>), Num(14 * Half)}
RawRowCells == {[w \in 1..NumWeeks |-> IF w = 1 THEN c ELSE d] : c, d \in RawCells}
RawTables(rows) == TablesOver(NameLists(rows), RawRowCells)
RawFlatTables ==
    TablesOver(NameLists(MaxRows), {[w \in 1..NumWeeks |-> c] : c \in RawCells})
RawUniformTables ==
    UNION {TablesOver(NameLists(MaxRows), {[w \in 1..NumWeeks |-> c]}) :
             c \in {Str(NR), Num(14 * Half)}}

\* --------------------------------------------------------- parser inputs
DigitAlphabet == {"0", "1", "5"}
DigitStrs(n) == UNION {[1..k -> DigitAlphabet] : k \in 1..n}

Decimals ==
    {i \o <<".">> \o f : i \in DigitStrs(1) \cup {<<>>},
                         f \in DigitStrs(MaxFrac) \cup {<<>>}}

RawPrefixes == {<<>>, <<"<">>, <<">">>, <<"<", "<">>, <<">", ">">>}
RawBodies == DigitStrs(MaxDigits) \cup Decimals
                \cup {<<>>, <<"x">>, NR, <<" ", "5">>}
RawSuffixes == {<<>>, <<" ">> \o LINT, LINT, <<">">>, <<"<">>, <<" ">>}

RawStrings == {p \o b \o s : p \in RawPrefixes, b \in RawBodies, s \in RawSuffixes}

RawInputs == {Str(s) : s \in RawStrings}
                \cup {NoneVal, NaN, Num(0), Num(5 * Scale)}

\* ------------------------------------ zoom controls (charts.py, pages)
\* zoom levels are counted in halves: 1.5x is 3, 2x is 4, 4x is 8
ZoomLevels == <<3, 4, 8>>
\* the sidebar slider goes from 1.0 to 8.0 in steps of 0.5; the presets 1, 2,
\* 4, 8 are among its values
SidebarZooms == 2..16

\* range=[0, 1]
FullRange == <<Ret(0, 1), Ret(1, 1)>>

\* get_zoom_ranges for centered axes: [0.5 - 0.5 / zoom, 0.5 + 0.5 / zoom]
ZoomRange_centered(zoom_level) ==
    <<Ret(zoom_level - 2, 2 * zoom_level), Ret(zoom_level + 2, 2 * zoom_level)>>

\* "polar.radialaxis.range": [0, 1 / zoom_level]
ZoomRange(zoom_level) == <<Ret(0, 1), Ret(2, zoom_level)>>

Control(kind, zoom_level) == [kind |-> kind, z |-> zoom_level]
\* buttons: Reset Zoom, then one button per zoom level
buttons ==
    <<[label |-> Control("reset", 2), range |-> FullRange]>> \o
    [i \in 1..Len(ZoomLevels) |->
        [label |-> Control("zoom", ZoomLevels[i]), range |-> ZoomRange(ZoomLevels[i])]]

\* what the displayed figure shows: the radial range and the control that set it
View(range, control) == [range |-> range, control |-> control]
NoView == View(FullRange, Control("none", 2))

\* ------------------------------------ week buttons (old/dashboard.py)
FirstWeek == 1
LastWeek == 7
MaxClicks == 4

\* a callback that steps without looking at the ends
update_week_unclamped(button_id, current_week) ==
    IF button_id = "prev-week" THEN current_week - 1 ELSE current_week + 1

\* update_week once a button has triggered it
update_week(button_id, current_week) ==
    IF button_id = "prev-week" THEN Max2(FirstWeek, current_week - 1)
    ELSE Min2(LastWeek, current_week + 1)

\* --------------------------- system states (pages/7 System_States.py)
MaxSeqRows == 3
MaxTime == 2

\* a timestamp cell: minutes since the first one, or text no format parses
Stamp(t) == [kind |-> "time", t |-> t]
NoStamp == [kind |-> "None", t |-> 0]
\* parse_timestamp: the parsed time, or None when both formats fail
parse_timestamp(ts) == IF ts.kind = "time" THEN ts ELSE NoStamp

\* state_map.get(str(x), x): a code that is no key is kept as it is
state_map(code) ==
    CASE code = "2002" -> "PRODUCTION"
      [] code = "2021" -> "WAIT"
      [] code = "WAIT" -> "WAIT"
      [] OTHER -> code
StateNames == {"INITIALIZATION", "PRODUCTION", "TAGOUT", "WAIT", "MEMBRANE_DIT",
               "SLEEP", "START", "MEMBRANE_AIRSOUR"}

\* the rows kept: timestamp parsed, code present, state known
Retained(sequences_df) ==
    SelectSeq([i \in 1..Len(sequences_df) |->
                 [timestamp |-> parse_timestamp(sequences_df[i].timestamp),
                  code |-> sequences_df[i].code,
                  state |-> state_map(sequences_df[i].code)]],
              LAMBDA row : /\ row.timestamp # NoStamp
                           /\ row.code # "nan"
                           /\ row.state \in StateNames)

\* timestamp.diff().shift(-1): the time to the next row, NaN in the last row
load_sequence_data(sequences_df) ==
    LET kept == Retained(sequences_df) IN
    [i \in 1..Len(kept) |->
        [timestamp |-> kept[i].timestamp.t,
         state |-> kept[i].state,
         duration |-> IF i < Len(kept)
                      THEN Num(kept[i + 1].timestamp.t - kept[i].timestamp.t)
                      ELSE NaN]]

\* df_timeline of create_state_timeline: one bar per row
create_state_timeline(df) ==
    [i \in 1..Len(df) |->
        [Start |-> df[i].timestamp,
         Finish |-> IF df[i].duration.kind = "num"
                    THEN df[i].timestamp + df[i].duration.v
                    ELSE df[i].timestamp,
         State |-> df[i].state]]

Timeline(bars) == [called |-> TRUE, df_timeline |-> bars]
NoTimeline == [called |-> FALSE, df_timeline |-> <<>>]

\* the rows of Sequences.csv
SequenceCodes == {"2002", "WAIT", "SLEEP", "9999", "nan"}
SequenceRows ==
    [timestamp : {Stamp(t) : t \in 0..MaxTime} \cup {NoStamp}, code : SequenceCodes]
SequenceFiles(rows) == UNION {[1..n -> SequenceRows] : n \in 0..rows}

\* ------------------------------ sensor plot (utils/ranged_charts.py)
\* levels are counted in tenths: 12 is 120, the margin 0.1 is 1
Tenths == 10

Rect(y0, y1, fillcolor) == [y0 |-> y0, y1 |-> y1, fillcolor |-> fillcolor]

\* lines 23-27 and 41-66: the four shaded rectangles, in the order drawn
plot_sensors(values_min, values_max, high_high_threshold, high_threshold, low_threshold, low_low_threshold) ==
    LET y_min == values_min - 1 * Tenths
        y_max == values_max + 1 * Tenths
        top_y == Max2(y_max, high_high_threshold + 1)
        bottom_y == Min2(y_min, low_low_threshold - 1)
    IN <<Rect(top_y, high_threshold, "red"),
         Rect(high_threshold, high_high_threshold, "yellow"),
         Rect(low_threshold, low_low_threshold, "yellow"),
         Rect(low_low_threshold, bottom_y, "red")>>

SensorArgs(vmin, vmax, hh, h, l, ll) ==
    [high_high_threshold |-> hh, high_threshold |-> h, low_threshold |-> l,
     low_low_threshold |-> ll, y_min |-> vmin, y_max |-> vmax]

\* levels for thresholds and readings; 12, 9, 5, 2 are the default thresholds
Levels == {0, 2, 5, 9, 12, 14}

\* -------------------------------------------------------------- state
VARIABLES raw, parsed, cache, nargs, nret, cargs, fig, copyret,
          view, table, seen, week_selector, prev_clicks, next_clicks,
          sequences, timeline, sensors, shapes

pageVars == <<view, table, seen, week_selector, prev_clicks, next_clicks,
              sequences, timeline, sensors, shapes>>
vars == <<raw, parsed, cache, nargs, nret, cargs, fig, copyret, pageVars>>

NoRet == [kind |-> "noret", v |-> 0, s |-> <<>>]
EmptyCache == [x \in {} |-> NoRet]
NoArgs == [value |-> NaN, name |-> <<>>, min |-> NaN, max |-> NaN, type |-> "none"]

ParserIdle == raw = NoneVal /\ parsed = NoRet /\ cache = EmptyCache
NoCall == [kind |-> "nocall", num |-> 0, den |-> 1]
NormalizerIdle == nargs = NoArgs /\ nret = NoCall

ChartArgs(w, ps, idata, tdata, iranges, tranges, dt, cmp) ==
    [week_num |-> w, params |-> ps, influent_data |-> idata,
     treated_data |-> tdata, influent_ranges |-> iranges,
     treated_ranges |-> tranges, data_type |-> dt, show_comparison |-> cmp]
NoChartArgs == ChartArgs(0, {}, <<>>, <<>>, <<>>, <<>>, "influent", FALSE)
NoFig == Raised("nocall")
NoCopyRet == CopyRaised("nocall")
ChartIdle == cargs = NoChartArgs /\ fig = NoFig /\ copyret = NoCopyRet

NoTable == [status |-> "nocall", columns |-> <<>>, rows |-> <<>>]
NoSeen == [k \in {} |-> NoTable]
NoSensors == SensorArgs(0, 0, 0, 0, 0, 0)

ZoomIdle == view = NoView
TableIdle == table = NoTable /\ seen = NoSeen
WeekIdle == week_selector = FirstWeek /\ prev_clicks = 0 /\ next_clicks = 0
TimelineIdle == sequences = <<>> /\ timeline = NoTimeline
SensorIdle == sensors = NoSensors /\ shapes = <<>>
PagesIdle == ZoomIdle /\ TableIdle /\ WeekIdle /\ TimelineIdle /\ SensorIdle

\* ---------------------------------------------------- parser specification
InitParse ==
    /\ raw \in RawInputs
    /\ parsed = NoRet
    /\ cache = EmptyCache
    /\ NormalizerIdle
    /\ ChartIdle
    /\ PagesIdle

ProcessData ==
    /\ parsed = NoRet
    /\ parsed' = process_data(cache, raw)
    /\ cache' = (raw :> process_data(cache, raw)) @@ cache
    /\ UNCHANGED <<raw, nargs, nret, cargs, fig, copyret, pageVars>>

NextParse == ProcessData

SpecParse == InitParse /\ [][NextParse]_vars

\* -------------------------------------- parser called again and again
\* load_data applies process_data to every cell of every column, so the one
\* cache serves every call
MemoInputs == {Str(<<"<", "5">>), Str(<<">", "5">>), Str(<<">", "x">>), Str(NR),
               Str(<<"x">>), Str(<<"5">>), NoneVal, NaN, Num(5 * Scale)}

InitMemo ==
    /\ ParserIdle
    /\ NormalizerIdle
    /\ ChartIdle
    /\ PagesIdle

ProcessDataCall ==
    \E value \in MemoInputs :
        /\ raw' = value
        /\ parsed' = process_data(cache, value)
        /\ cache' = IF value \in DOMAIN cache THEN cache
                    ELSE (value :> process_data(cache, value)) @@ cache
        /\ UNCHANGED <<nargs, nret, cargs, fig, copyret, pageVars>>

NextMemo == ProcessDataCall

SpecMemo == InitMemo /\ [][NextMemo]_vars

\* ------------------------------------------------ normalizer specification
InitNormalize ==
    /\ nargs \in [value : FloatInputs, name : {PH, TURBIDITY}, min : FloatInputs,
                  max : FloatInputs, type : Policies]
    /\ nret = NoCall
    /\ ParserIdle
    /\ ChartIdle
    /\ PagesIdle

NormalizeParameter ==
    /\ nret = NoCall
    /\ nret' = normalize_parameter(nargs.value, nargs.name, nargs.min,
                                   nargs.max, nargs.type)
    /\ UNCHANGED <<raw, parsed, cache, nargs, cargs, fig, copyret, pageVars>>

NextNormalize == NormalizeParameter

SpecNormalize == InitNormalize /\ [][NextNormalize]_vars

\* ------------------------------------------------------ chart specification
\* a page shows the influent table, the treated table, or both (comparison)
InitChart ==
    /\ \/ \E w \in 1..NumWeeks, ps \in ParamChoices, d \in Tables, rg \in RangeTables :
             cargs = ChartArgs(w, ps, d, <<>>, rg, <<>>, "influent", FALSE)
       \/ \E w \in 1..NumWeeks, ps \in ParamChoices, d \in FlatTables, rg \in RangeTables :
             cargs = ChartArgs(w, ps, <<>>, d, <<>>, rg, "treated", FALSE)
       \/ \E d \in FlatTables, t \in UniformTables, rg \in RangeTables :
             cargs = ChartArgs(NumWeeks, ChartNames, d, t, rg, rg, "influent", TRUE)
       \* caller misuse: no parameter selected, or a week without a column
       \/ \E w \in 1..(NumWeeks + 1), ps \in ParamChoices \cup {{}}, d \in UniformTables :
             /\ w = NumWeeks + 1 \/ ps = {}
             /\ cargs = ChartArgs(w, ps, d, <<>>, <<>>, <<>>, "influent", FALSE)
    /\ fig = NoFig
    /\ copyret = NoCopyRet
    /\ ParserIdle
    /\ NormalizerIdle
    /\ PagesIdle

CreateRadarChart ==
    /\ fig = NoFig
    /\ fig' = create_radar_chart(cargs.week_num, cargs.params, cargs.influent_data,
                                 cargs.treated_data, cargs.influent_ranges,
                                 cargs.treated_ranges, cargs.data_type,
                                 cargs.show_comparison)
    /\ UNCHANGED <<raw, parsed, cache, nargs, nret, cargs, copyret, pageVars>>

NextChart == CreateRadarChart

SpecChart == InitChart /\ [][NextChart]_vars

\* --------------------------------------- earlier builder's specification
InitChartCopy ==
    /\ \/ \E w \in 1..(NumWeeks + 1), ps \in ParamChoices \cup {{}}, d \in RawTables(MaxRows) :
             cargs = ChartArgs(w, ps, d, <<>>, <<>>, <<>>, "influent", FALSE)
       \/ \E w \in 1..NumWeeks, ps \in ParamChoices, d \in RawFlatTables :
             cargs = ChartArgs(w, ps, <<>>, d, <<>>, <<>>, "treated", FALSE)
       \/ \E d \in RawFlatTables, t \in RawUniformTables, rg \in RangeTables :
             cargs = ChartArgs(NumWeeks, ChartNames, d, t, <<>>, rg, "influent", TRUE)
    /\ fig = NoFig
    /\ copyret = NoCopyRet
    /\ ParserIdle
    /\ NormalizerIdle
    /\ PagesIdle

CopyCreateRadarChart ==
    /\ copyret = NoCopyRet
    /\ copyret' = copy_create_radar_chart(cargs.week_num, cargs.params,
                                          cargs.influent_data, cargs.treated_data,
                                          cargs.influent_ranges, cargs.treated_ranges,
                                          cargs.data_type, cargs.show_comparison)
    /\ UNCHANGED <<raw, parsed, cache, nargs, nret, cargs, fig, pageVars>>

NextChartCopy == CopyCreateRadarChart

SpecChartCopy == InitChartCopy /\ [][NextChartCopy]_vars

\* -------------------------------------- loader, then the earlier builder
\* cargs holds the tables as the files have them
InitPipeline ==
    /\ \/ \E w \in 1..NumWeeks, ps \in ParamChoices, d \in RawTables(MaxRows) :
             cargs = ChartArgs(w, ps, d, <<>>, <<>>, <<>>, "influent", FALSE)
       \/ \E w \in 1..NumWeeks, ps \in ParamChoices, d \in RawFlatTables :
             cargs = ChartArgs(w, ps, <<>>, d, <<>>, <<>>, "treated", FALSE)
    /\ fig = NoFig
    /\ copyret = NoCopyRet
    /\ ParserIdle
    /\ NormalizerIdle
    /\ PagesIdle

LoadThenBuild ==
    /\ copyret = NoCopyRet
    /\ copyret' = copy_create_radar_chart(cargs.week_num, cargs.params,
                                          load_frame(cargs.influent_data),
                                          load_frame(cargs.treated_data),
                                          cargs.influent_ranges, cargs.treated_ranges,
                                          cargs.data_type, cargs.show_comparison)
    /\ UNCHANGED <<raw, parsed, cache, nargs, nret, cargs, fig, pageVars>>

NextPipeline == LoadThenBuild

SpecPipeline == InitPipeline /\ [][NextPipeline]_vars

\* ------------------------------------------- week buttons specification
\* the layout starts with Week 1 selected and no click
InitWeek ==
    /\ WeekIdle
    /\ ParserIdle
    /\ NormalizerIdle
    /\ ChartIdle
    /\ ZoomIdle /\ TableIdle /\ TimelineIdle /\ SensorIdle

\* the dropdown offers Week 1 .. Week 7
SelectWeek ==
    /\ \E w \in FirstWeek..LastWeek : week_selector' = w
    /\ UNCHANGED <<raw, parsed, cache, nargs, nret, cargs, fig, copyret, view, table,
                   seen, prev_clicks, next_clicks, sequences, timeline, sensors, shapes>>

ClickPrevWeek ==
    /\ prev_clicks < MaxClicks
    /\ prev_clicks' = prev_clicks + 1
    /\ week_selector' = update_week("prev-week", week_selector)
    /\ UNCHANGED <<raw, parsed, cache, nargs, nret, cargs, fig, copyret, view, table,
                   seen, next_clicks, sequences, timeline, sensors, shapes>>

ClickNextWeek ==
    /\ next_clicks < MaxClicks
    /\ next_clicks' = next_clicks + 1
    /\ week_selector' = update_week("next-week", week_selector)
    /\ UNCHANGED <<raw, parsed, cache, nargs, nret, cargs, fig, copyret, view, table,
                   seen, prev_clicks, sequences, timeline, sensors, shapes>>

NextWeek == SelectWeek \/ ClickPrevWeek \/ ClickNextWeek

SpecWeek == InitWeek /\ [][NextWeek]_vars

\* ------------------------------------------- system states specification
InitTimeline ==
    /\ sequences \in SequenceFiles(MaxSeqRows)
    /\ timeline = NoTimeline
    /\ ParserIdle
    /\ NormalizerIdle
    /\ ChartIdle
    /\ ZoomIdle /\ TableIdle /\ WeekIdle /\ SensorIdle

\* the page loads the file and draws the timeline of what it loaded
ShowStateTimeline ==
    /\ timeline = NoTimeline
    /\ timeline' = Timeline(create_state_timeline(load_sequence_data(sequences)))
    /\ UNCHANGED <<raw, parsed, cache, nargs, nret, cargs, fig, copyret, view, table,
                   seen, week_selector, prev_clicks, next_clicks, sequences, sensors,
                   shapes>>

NextTimeline == ShowStateTimeline

SpecTimeline == InitTimeline /\ [][NextTimeline]_vars

\* ---------------------------------------------- sensor plot specification
InitSensors ==
    /\ \E vmin, vmax, hh, h, l, ll \in Levels :
          /\ vmin <= vmax
          /\ ll < l /\ l < h /\ h < hh
          /\ sensors = SensorArgs(vmin * Tenths, vmax * Tenths, hh * Tenths,
                                  h * Tenths, l * Tenths, ll * Tenths)
    /\ shapes = <<>>
    /\ ParserIdle
    /\ NormalizerIdle
    /\ ChartIdle
    /\ ZoomIdle /\ TableIdle /\ WeekIdle /\ TimelineIdle

PlotSensors ==
    /\ shapes = <<>>
    /\ shapes' = plot_sensors(sensors.y_min, sensors.y_max, sensors.high_high_threshold,
                              sensors.high_threshold, sensors.low_threshold,
                              sensors.low_low_threshold)
    /\ UNCHANGED <<raw, parsed, cache, nargs, nret, cargs, fig, copyret, view, table,
                   seen, week_selector, prev_clicks, next_clicks, sequences, timeline,
                   sensors>>

NextSensors == PlotSensors

SpecSensors == InitSensors /\ [][NextSensors]_vars

\* --------------------------------------------------- zoom specification
\* the treated-water page: every run of the script builds the chart and
\* applies the sidebar's zoom level; the chart's buttons relayout the figure
\* that is displayed
InitZoom ==
    /\ \E w \in {1, NumWeeks}, ps \in ParamChoices, d \in UniformTables, rg \in RangeTables :
          cargs = ChartArgs(w, ps, <<>>, d, <<>>, rg, "treated", FALSE)
    /\ fig = NoFig
    /\ copyret = NoCopyRet
    /\ ZoomIdle
    /\ ParserIdle
    /\ NormalizerIdle
    /\ TableIdle /\ WeekIdle /\ TimelineIdle /\ SensorIdle

RunTreatedPage ==
    \E zoom_level \in SidebarZooms :
        LET built == create_radar_chart(cargs.week_num, cargs.params, cargs.influent_data,
                                        cargs.treated_data, cargs.influent_ranges,
                                        cargs.treated_ranges, cargs.data_type,
                                        cargs.show_comparison)
        IN /\ fig' = built
           /\ view' = IF built.status = "ok"
                      THEN View(ZoomRange(zoom_level), Control("sidebar", zoom_level))
                      ELSE NoView
           /\ UNCHANGED <<raw, parsed, cache, nargs, nret, cargs, copyret, table, seen,
                          week_selector, prev_clicks, next_clicks, sequences, timeline,
                          sensors, shapes>>

\* method="relayout": only the layout entry named in args is replaced
ClickZoomButton ==
    /\ fig.status = "ok"
    /\ \E b \in DOMAIN buttons : view' = View(buttons[b].range, buttons[b].label)
    /\ UNCHANGED <<raw, parsed, cache, nargs, nret, cargs, fig, copyret, table, seen,
                   week_selector, prev_clicks, next_clicks, sequences, timeline,
                   sensors, shapes>>

NextZoom == RunTreatedPage \/ ClickZoomButton

SpecZoom == InitZoom /\ [][NextZoom]_vars

\* -------------------------------------------------- table specification
\* the influent page and the treated page each show the table of their data
InitTable ==
    /\ \E w \in 1..(NumWeeks + 1), ps \in TableParamChoices, d \in FlatTables,
             rg \in RangeTables :
          /\ RowsIn(d, ps) # <<>>
          /\ \/ cargs = ChartArgs(w, ps, d, <<>>, rg, <<>>, "influent", FALSE)
             \/ cargs = ChartArgs(w, ps, <<>>, d, <<>>, rg, "treated", FALSE)
    /\ fig = NoFig
    /\ copyret = NoCopyRet
    /\ TableIdle
    /\ ParserIdle
    /\ NormalizerIdle
    /\ ZoomIdle /\ WeekIdle /\ TimelineIdle /\ SensorIdle

CreateParameterTable ==
    /\ table = NoTable
    /\ table' = IF cargs.data_type = "treated"
                THEN create_parameter_table(cargs.week_num, cargs.params,
                                            cargs.treated_data, cargs.treated_ranges)
                ELSE create_parameter_table(cargs.week_num, cargs.params,
                                            cargs.influent_data, cargs.influent_ranges)
    /\ UNCHANGED <<raw, parsed, cache, nargs, nret, cargs, fig, copyret, view, seen,
                   week_selector, prev_clicks, next_clicks, sequences, timeline,
                   sensors, shapes>>

NextTable == CreateParameterTable

SpecTable == InitTable /\ [][NextTable]_vars

\* ------------------------------------------ repeated builds, same tables
\* the pages build charts and tables over the tables load_data returned, one
\* build after another; seen keeps the first result of every distinct call
InitRebuild ==
    /\ \E d \in RebuildTables, t \in RebuildTables, rg \in RebuildRanges :
          cargs = ChartArgs(0, {}, d, t, rg, rg, "influent", FALSE)
    /\ fig = NoFig
    /\ copyret = NoCopyRet
    /\ TableIdle
    /\ ParserIdle
    /\ NormalizerIdle
    /\ ZoomIdle /\ WeekIdle /\ TimelineIdle /\ SensorIdle

CallKey(what, w, ps, dt, cmp) == <<what, w, ps, dt, cmp>>
Remember(key, result) == IF key \in DOMAIN seen THEN seen ELSE (key :> result) @@ seen
MayBuild(key) == key \in DOMAIN seen \/ Cardinality(DOMAIN seen) < MaxBuilds

ArgsAfterBuild(w, ps, dt, cmp) ==
    [cargs EXCEPT !.week_num = w, !.params = ps, !.data_type = dt,
                  !.show_comparison = cmp,
                  !.influent_data = IF dt = "influent" \/ cmp
                                    THEN FrameAfterBuild(@, ps) ELSE @,
                  !.treated_data = IF dt = "treated" \/ cmp
                                   THEN FrameAfterBuild(@, ps) ELSE @]

BuildChart ==
    \E w \in RebuildWeeks, ps \in ParamChoices, k \in RebuildKinds :
        LET key == CallKey("chart", w, ps, k.data_type, k.show_comparison)
            built == create_radar_chart(w, ps, cargs.influent_data, cargs.treated_data,
                                        cargs.influent_ranges, cargs.treated_ranges,
                                        k.data_type, k.show_comparison)
        IN /\ MayBuild(key)
           /\ fig' = built
           /\ table' = NoTable
           /\ seen' = Remember(key, built)
           /\ cargs' = ArgsAfterBuild(w, ps, k.data_type, k.show_comparison)
           /\ UNCHANGED <<raw, parsed, cache, nargs, nret, copyret, view,
                          week_selector, prev_clicks, next_clicks, sequences,
                          timeline, sensors, shapes>>

BuildTable ==
    \E w \in RebuildWeeks, ps \in ParamChoices, dt \in {"influent", "treated"} :
        LET key == CallKey("table", w, ps, dt, FALSE)
            built == IF dt = "treated"
                     THEN create_parameter_table(w, ps, cargs.treated_data,
                                                 cargs.treated_ranges)
                     ELSE create_parameter_table(w, ps, cargs.influent_data,
                                                 cargs.influent_ranges)
        IN /\ MayBuild(key)
           /\ table' = built
           /\ fig' = NoFig
           /\ seen' = Remember(key, built)
           /\ cargs' = ArgsAfterBuild(w, ps, dt, FALSE)
           /\ UNCHANGED <<raw, parsed, cache, nargs, nret, copyret, view,
                          week_selector, prev_clicks, next_clicks, sequences,
                          timeline, sensors, shapes>>

NextRebuild == BuildChart \/ BuildTable

SpecRebuild == InitRebuild /\ [][NextRebuild]_vars


\* ======================================================== normalizer claims
Called == nret # NoCall
Returned == nret.kind = "ok"
Numeric == ~isna(nargs.value) /\ ~isna(nargs.min) /\ ~isna(nargs.max)

\* a / b <= c / d and a / b = c / d for results with positive denominators
RatLeq(x, y) == x.num * y.den <= y.num * x.den
RatEq(x, y) == x.num * y.den = y.num * x.den
IsZero(x) == x.kind = "ok" /\ x.num = 0
IsOne(x) == x.kind = "ok" /\ x.num = x.den

\* C1: for every value, min, max and policy normalize returns a number r
\* with 0 <= r <= 1.
C1_ReturnsUnitInterval ==
    Called => (Returned /\ 0 <= nret.num /\ nret.num <= nret.den)

\* C3: the PH scenario: bounds (6.5, 8.5), policy ph_difference
PhScenario ==
    /\ Called
    /\ nargs.type = "ph_difference"
    /\ nargs.min = Num(13 * Half)
    /\ nargs.max = Num(17 * Half)

\* C3 as stated: 7.0 -> 0.0, 8.5 -> 1.0 and 6.5 -> 1.0
C3_PhScenarioAsStated ==
    PhScenario =>
        /\ nargs.value = Num(14 * Half) => IsZero(nret)
        /\ nargs.value = Num(17 * Half) => IsOne(nret)
        /\ nargs.value = Num(13 * Half) => IsOne(nret)

\* C3 as amended: 7.0 -> 0.0, 8.5 -> 1.0 and 6.5 -> 0.5 / 1.5 = 1/3, the
\* deviation over the larger of the two distances from 7 to a bound
C3_PhScenario ==
    PhScenario =>
        /\ nargs.value = Num(14 * Half) => IsZero(nret)
        /\ nargs.value = Num(17 * Half) => IsOne(nret)
        /\ nargs.value = Num(13 * Half) => (Returned /\ RatEq(nret, Ret(1, 3)))

C3_Witness ==
    PhScenario /\ nargs.value = Num(13 * Half) /\ Returned /\ RatEq(nret, Ret(1, 3))

\* C4: standard policy with max == min returns 1.0 when value >= max and
\* 0.0 when value < max.
C4_DegenerateStandard ==
    (Called /\ Numeric /\ nargs.type = "standard" /\ nargs.max = nargs.min) =>
        IF nargs.value.v >= nargs.max.v THEN IsOne(nret) ELSE IsZero(nret)

\* C5: whenever a policy's formula would divide by zero, normalize returns
\* 0.0 and raises nothing.
ZeroDivisor ==
    /\ Numeric
    /\ \/ /\ nargs.type = "ph_difference"
          /\ nargs.min.v = NeutralPh * Scale
          /\ nargs.max.v = NeutralPh * Scale
       \/ nargs.type = "centered" /\ nargs.max = nargs.min
       \/ nargs.type = "standard" /\ nargs.max = nargs.min

C5_NoDivisionByZero == (Called /\ ZeroDivisor) => IsZero(nret)

\* C6: standard policy, min < max: for v1 <= v2 inside [min, max],
\* normalize(v1) <= normalize(v2), and both lie in [0, 1].
InUnit(x) == x.kind = "ok" /\ 0 <= x.num /\ x.num <= x.den

PhBounds ==
    /\ Called /\ Numeric /\ nargs.type = "ph_difference"
    /\ nargs.min.v < NeutralPh * Scale /\ NeutralPh * Scale < nargs.max.v

C7_PhZeroAndMonotone ==
    PhBounds =>
        /\ Returned
        /\ (nret.num = 0) <=> (nargs.value.v = NeutralPh * Scale)
        /\ \A v2 \in NumGrid :
              Abs(nargs.value.v - NeutralPh * Scale) <= Abs(v2 - NeutralPh * Scale) =>
                  LET r2 == normalize_parameter(Num(v2), nargs.name, nargs.min,
                                                nargs.max, "ph_difference")
                  IN r2.kind = "ok" /\ RatLeq(nret, r2)

C7_Witness ==
    /\ PhBounds /\ nargs.value.v < NeutralPh * Scale
    /\ Returned /\ 0 < nret.num /\ nret.num < nret.den

\* ============================================================ parser claims
Parsed == parsed # NoRet
Concat1(c, s) == <<c>> \o s

\* a decimal number: digits with at most one point and at least one digit
IsDecimal(n) ==
    /\ n # <<>>
    /\ \A i \in 1..Len(n) : n[i] \in DigitChars \cup {"."}
    /\ FloatOk(n)

\* C8: a raw string ending in 'LINT' parses to the number in its first
\* whitespace-delimited token with any leading '<' removed.
C8_LintToken ==
    (/\ Parsed /\ raw.kind = "str" /\ endswith(raw.s, LINT)
     /\ IsDecimal(lstrip(FirstToken(raw.s), "<"))) =>
        parsed = Num(FloatVal(lstrip(FirstToken(raw.s), "<")))

\* C9: '>' followed by N: N all digits -> N; any non-digit after '>' -> 2000.
C9_GreaterThan ==
    (Parsed /\ raw.kind = "str" /\ startswith(raw.s, ">")) =>
        LET n == Tail(raw.s) IN
        /\ isdigit(n) => parsed = Num(IntVal(n) * Scale)
        /\ (\E i \in 1..Len(n) : n[i] \notin DigitChars) =>
               parsed = Num(Sentinel * Scale)

\* C10: '<' followed by a decimal number N parses to N.
C10_LessThan ==
    (/\ Parsed /\ raw.kind = "str" /\ startswith(raw.s, "<")
     /\ IsDecimal(Tail(raw.s))) =>
        parsed = Num(FloatVal(Tail(raw.s)))

C10_Witness ==
    /\ raw = Str(<<"<", "0", ".", "1">>)
    /\ parsed = Num(Scale \div 10)


\* C11: parse returns 0.0 for the marker 'N/R', for a null (None) or empty
\* cell, and for every string that matches none of the recognised forms and
\* is not a number.
Unrecognised(s) ==
    /\ ~startswith(s, "<") /\ ~startswith(s, ">")
    /\ s # NR /\ ~endswith(s, LINT)
    /\ ~FloatOk(s)

C12_NeverRaises == Parsed => parsed.kind \in {"num", "nan"}

C12_Witness ==
    /\ raw = Str(<<"<", "x">>)
    /\ parsed = Num(0)

\* ============================================================= chart claims
Built == fig.status = "ok"

\* C2: the builder normalizes a parameter with the ph_difference policy
\* whenever its name equals 'PH' ignoring case, and with the standard policy
\* for every other name.
C2_PhPolicyIgnoringCase ==
    Built =>
        \A i \in 1..Len(fig.types) :
            fig.types[i] = IF upper(fig.main.theta[i]) = PH
                           THEN "ph_difference" ELSE "standard"

\* the bounds table and the measurement table the chart was built from
RangesUsed == IF cargs.data_type = "treated" THEN cargs.treated_ranges
              ELSE cargs.influent_ranges
DataUsed == IF cargs.data_type = "treated" THEN cargs.treated_data
            ELSE cargs.influent_data
Plotted == DOMAIN fig.types
HasBoundsRow(i) == Len(RowsNamed(RangesUsed, fig.main.theta[i])) > 0
BoundsRow(i) == RowsNamed(RangesUsed, fig.main.theta[i])[1]

\* C13: with a row in the bounds table, resolve_bounds returns (Min, Max) of
\* that row if Max != 0 and (Min, 1.0) if Max == 0.
C13_BoundsFromTable ==
    Built =>
        \A i \in Plotted :
            HasBoundsRow(i) =>
                /\ fig.min_values[i] = BoundsRow(i).Min
                /\ fig.max_values[i] = IF BoundsRow(i).Max = Num(0) THEN Num(Scale)
                                       ELSE BoundsRow(i).Max

\* C14: without a row in the bounds table, resolve_bounds returns
\* (0, observed_max): the largest value of the parameter over all periods, or
\* 1.0 if that maximum is 0 or absent.
ObservedNums(i) ==
    LET row == RowsNamed(DataUsed, fig.main.theta[i])[1]
    IN {row.weeks[w].v : w \in {x \in 1..NumWeeks : row.weeks[x].kind = "num"}}

ObservedMax(i) ==
    LET nums == ObservedNums(i)
        m == CHOOSE x \in nums : \A y \in nums : x >= y
    IN IF nums = {} THEN Num(Scale)
       ELSE IF m = 0 THEN Num(Scale)
       ELSE Num(m)

C14_BoundsFromData ==
    Built =>
        \A i \in Plotted :
            ~HasBoundsRow(i) =>
                /\ fig.min_values[i] = Num(0)
                /\ fig.max_values[i] = ObservedMax(i)

\* C15: every pair (min, max) that resolve_bounds returns has max > min.
C15_BoundsOrdered ==
    Built =>
        \A i \in Plotted :
            /\ fig.min_values[i].kind = "num"
            /\ fig.max_values[i].kind = "num"
            /\ fig.max_values[i].v > fig.min_values[i].v

\* C16: the warning is None exactly when no selected parameter has a missing,
\* not-reported ('N/R') or blank cell in the requested week; otherwise it
\* names exactly the selected parameters whose cell is missing in that week.
MissingCells == {NaN, NoneVal, Str(NR), Str(<<>>), Str(<<" ">>)}
CopyBuilt == copyret.status = "ok"

SelectedMissing ==
    {DataUsed[i].name : i \in {j \in DOMAIN DataUsed :
                                  /\ DataUsed[j].name \in cargs.params
                                  /\ DataUsed[j].weeks[cargs.week_num] \in MissingCells}}

SourceMissing ==
    {j \in DOMAIN DataUsed :
        /\ DataUsed[j].name \in cargs.params
        /\ DataUsed[j].weeks[cargs.week_num] \in MissingCells}

C26_MissingSurvivesLoading ==
    CopyBuilt =>
        \A j \in SourceMissing :
            /\ DataUsed[j].name \in Range(copyret.warning.names)
            /\ \A i \in DOMAIN copyret.theta :
                  copyret.theta[i] = DataUsed[j].name => copyret.values[i] = Num(0)

\* C17: the angular axis lists the selected parameter names in ascending
\* alphabetical order, whatever the order of the rows of the table.
C17_AxisSorted ==
    Built =>
        \A i, j \in DOMAIN fig.main.theta :
            i < j => StrLess(fig.main.theta[i], fig.main.theta[j])

\* C18: every data series is a closed polygon: for n selected parameters it
\* has n + 1 points and its last (parameter, value) pair equals its first.
ClosedSeries(trace, n) ==
    /\ Len(trace.theta) = n + 1
    /\ Len(trace.r) = n + 1
    /\ trace.theta[n + 1] = trace.theta[1]
    /\ trace.r[n + 1] = trace.r[1]

C18_ClosedPolygons ==
    Built =>
        /\ ClosedSeries(fig.main, Len(fig.types))
        /\ cargs.show_comparison => ClosedSeries(fig.comparison, Len(fig.types))

\* C19: for a period that is a column of the table and a non-empty parameter
\* list, build completes without raising, whatever the cells and bounds.
Called_Chart == fig # NoFig
ValidCall == cargs.week_num \in 1..NumWeeks /\ cargs.params # {}

C19_NeverRaises == (Called_Chart /\ ValidCall) => Built

\* C20: a build with an empty parameter list, or with a period that is not a
\* column of the table, ends in an error; no chart is returned.
Misuse == cargs.week_num \notin 1..NumWeeks \/ cargs.params = {}

TreatedRows(i) == RowsNamed(cargs.treated_data, fig.main.theta[i])

C27_ComparisonAligned ==
    (Built /\ cargs.show_comparison) =>
        /\ Len(fig.comparison.r) = Len(fig.main.theta)
        /\ \A i \in DOMAIN fig.comparison.r :
              TreatedRows(i) # <<>> =>
                  fig.comparison.actual[i] =
                      float_(TreatedRows(i)[1].weeks[cargs.week_num])

\* ========================================================= zoom claims
\* C21: applying any sequence of the zoom presets (1.5x, 2x, 4x) and the reset
\* control changes only the visible radial range, to [0, 1/z] for zoom z and to
\* [0, 1] for reset, and never the normalized value of any point of any series.
RangeIs(lo, hi) == RatEq(view.range[1], lo) /\ RatEq(view.range[2], hi)

ButtonRange ==
    /\ view.control.kind = "reset" => RangeIs(Ret(0, 1), Ret(1, 1))
    /\ view.control.kind = "zoom" => RangeIs(Ret(0, 1), Ret(2, view.control.z))

ButtonClicked == view' # view /\ view'.control.kind \in {"reset", "zoom"}

C21_ZoomOnlyChangesRange ==
    /\ []ButtonRange
    /\ [][ButtonClicked =>
            /\ fig'.main = fig.main
            /\ fig'.comparison = fig.comparison
            /\ fig'.range = fig.range]_vars

C21_Witness ==
    /\ view.control.kind = "zoom"
    /\ view.control.z = 3
    /\ Len(fig.main.r) = 2

\* ======================================================== table claims
TableBuilt == table.status = "ok"
SelectedRows == RowsIn(DataUsed, cargs.params)

\* C22: build_table returns exactly one row for each selected parameter
\* present in the dataset; a selected parameter without a row in the bounds
\* table still appears, with a blank range string.
C22_OneRowPerParameter ==
    TableBuilt =>
        /\ Len(table.rows) = Len(SelectedRows)
        /\ \A i \in DOMAIN table.rows :
              /\ table.rows[i].Details = SelectedRows[i].name
              /\ RowsNamed(RangesUsed, table.rows[i].Details) = <<>> =>
                    table.rows[i].range = <<>>

\* C23: whenever the pH parameter (named 'PH' in the measurement tables) is in
\* the requested set, the table has a pH-deviation column whose value in the pH
\* row is |current value - 7|; when pH is not requested the column is absent.
PhRequested == \E name \in cargs.params : upper(name) = PH

C23_PhDeviationColumn ==
    TableBuilt =>
        /\ PhRequested <=> "pH Difference" \in Range(table.columns)
        /\ \A i \in DOMAIN table.rows :
              (upper(table.rows[i].Details) = PH /\ table.rows[i].current_value.kind = "num") =>
                  table.rows[i].ph_difference =
                      Num(Abs(table.rows[i].current_value.v - NeutralPh * Scale))

\* C24: building a chart or a table leaves the measurement and bounds tables
\* passed in unchanged, so a second build with the same arguments, after any
\* number of other builds, returns an equal result.
TablesPassed == <<cargs.influent_data, cargs.treated_data,
                  cargs.influent_ranges, cargs.treated_ranges>>
LastKey(what) == CallKey(what, cargs.week_num, cargs.params, cargs.data_type,
                         cargs.show_comparison)

SameAsFirstBuild ==
    /\ fig # NoFig => fig = seen[LastKey("chart")]
    /\ table # NoTable => table = seen[LastKey("table")]

C25_CacheIsTransparent ==
    /\ Parsed => parsed = process_data_body(raw)
    /\ \A x \in DOMAIN cache : cache[x] = process_data_body(x)

C25_Witness ==
    /\ DOMAIN cache = MemoInputs
    /\ raw = Str(<<">", "x">>)
    /\ parsed = Num(Sentinel * Scale)

\* ================================================== week button claims
\* C28: starting from a selected week in 1..7, after any sequence of previous-
\* and next-week clicks the selected week is still in 1..7: previous at week 1
\* leaves it at 1, next at week 7 leaves it at 7, and every other click changes
\* the week by exactly one in the clicked direction.
PrevClicked == prev_clicks' = prev_clicks + 1
NextClicked == next_clicks' = next_clicks + 1

C28_WeekStaysInRange ==
    /\ [](week_selector \in 1..7)
    /\ [][/\ PrevClicked =>
               week_selector' = IF week_selector = 1 THEN 1 ELSE week_selector - 1
          /\ NextClicked =>
               week_selector' = IF week_selector = 7 THEN 7 ELSE week_selector + 1]_vars

C28_Witness ==
    /\ week_selector = 7
    /\ next_clicks = 1
    /\ prev_clicks = 0

\* ================================================ system state claims
\* C29: each retained row yields an interval that starts at its own timestamp
\* and finishes at the timestamp of the next retained row (the last one has
\* zero length); for every input sequence of rows no interval finishes before
\* it starts and no two intervals overlap.
Bars == timeline.df_timeline
KeptRows == Retained(sequences)

C29_IntervalsWellFormed ==
    timeline.called =>
        /\ Len(Bars) = Len(KeptRows)
        /\ \A i \in DOMAIN Bars :
              /\ Bars[i].Start = KeptRows[i].timestamp.t
              /\ Bars[i].Finish = IF i < Len(Bars) THEN KeptRows[i + 1].timestamp.t
                                  ELSE Bars[i].Start
              /\ Bars[i].Finish >= Bars[i].Start
        /\ \A i, j \in DOMAIN Bars :
              i < j => \/ Bars[i].Finish <= Bars[j].Start
                       \/ Bars[j].Finish <= Bars[i].Start

\* ================================================== sensor plot claims
\* C30: for thresholds low_low < low < high < high_high the four shaded bands
\* do not overlap except at shared edges: the red bands cover only values above
\* high_high and below low_low, the yellow bands only the values between high
\* and high_high and between low_low and low.
Lower(rect) == Min2(rect.y0, rect.y1)
Upper(rect) == Max2(rect.y0, rect.y1)
Within(rect, lo, hi) == lo <= Lower(rect) /\ Upper(rect) <= hi

C30_BandsDoNotOverlap ==
    shapes # <<>> =>
        /\ \A i, j \in DOMAIN shapes :
              i < j => \/ Upper(shapes[i]) <= Lower(shapes[j])
                       \/ Upper(shapes[j]) <= Lower(shapes[i])
        /\ \A i \in DOMAIN shapes :
              /\ shapes[i].fillcolor = "red" =>
                    \/ Lower(shapes[i]) >= sensors.high_high_threshold
                    \/ Upper(shapes[i]) <= sensors.low_low_threshold
              /\ shapes[i].fillcolor = "yellow" =>
                    \/ Within(shapes[i], sensors.high_threshold,
                              sensors.high_high_threshold)
                    \/ Within(shapes[i], sensors.low_low_threshold,
                              sensors.low_threshold)

====
